---- MODULE Spec2Model ----
(***************************************************************************)
(* Model of frontend.py, the Streamlit front-end of the PDF chat app.      *)
(*                                                                         *)
(* Streamlit runs the whole script top to bottom once when the session     *)
(* opens and once after every widget interaction.  session_state outlives  *)
(* the runs.  A script run is modelled as a sequence of steps, pc naming   *)
(* the position of the run in the script:                                  *)
(*   "idle"   no run in progress, the page waits for the user              *)
(*   "init"   before line 69 (session state initialisation)                *)
(*   "page"   before the page dispatch of lines 92 / 107 / 185             *)
(*   "col2"   before column 2 of the Chatbot page (line 134)               *)
(*   "col3"   before column 3 of the Chatbot page (line 161)               *)
(*   "footer" before the footer (line 195)                                 *)
(* EmbeddingsManager and ChatbotManager are external: every call into them *)
(* either returns or raises, chosen nondeterministically.                  *)
(***************************************************************************)
EXTENDS Integers, Sequences, FiniteSets, TLC

\* ---------------------------------------------------------------- bounds
\* Message sends (chat inputs submitted) allowed in one session.
MaxSends == 2

\* ------------------------------------------------------------- constants
None == "None"
NoManager == 0
Pages == {"Home", "Chatbot", "Contact"}
DocPath == "doc.pdf"
\* Contents of the PDF files a user may upload.
Docs == {"docA", "docB"}
\* Strings a user may submit in the chat input.
Questions == {"q1", "q2"}
\* Values get_response may return.
Answers == {"a1"}
\* Exception classes the managers may raise (all subclasses of Exception).
ExcTypes == {"FileNotFoundError", "ValueError", "ConnectionError", "RuntimeError"}

VARIABLES
    session_state,      \* streamlit.session_state: a dict, {} or {'state': {...}}
    choice,             \* value of the sidebar selectbox
    uploaded_file,      \* value of the file uploader: None or the file's contents
    create_embeddings,  \* value of the "Create Embeddings" checkbox
    user_input,         \* what st.chat_input returns in the current run
    chat_input_shown,   \* the chat input was rendered by the current/last run
    disk,               \* contents of the file doc.pdf, None when absent
    vector_db,          \* document held by the vector store after the last
                        \* create_embeddings call that returned, None when empty
    managers,           \* number of ChatbotManager instances constructed
    pc,                 \* position of the script run
    trace,              \* calls and displays of the current/last run, in order
    run_start,          \* history: messages when the current/last run started
    progress            \* history: "nothing" -> "uploaded" -> "embedded"

vars == <<session_state, choice, uploaded_file, create_embeddings, user_input,
          chat_input_shown, disk, vector_db, managers, pc, trace, run_start,
          progress>>

widgets == <<choice, uploaded_file, create_embeddings, user_input>>

\* ------------------------------------------------------- session state
NoSession == [k \in {} |-> None]
EmptyState == [temp_pdf_path |-> None, chatbot_manager |-> NoManager, messages |-> <<>>]
HasState == "state" \in DOMAIN session_state
State == session_state["state"]

NeedsInit_always(ss) == TRUE
NeedsInit(ss) == "state" \notin DOMAIN ss

Messages == IF HasState THEN State.messages ELSE <<>>

Init ==
    /\ session_state = NoSession
    /\ choice = "Home"
    /\ uploaded_file = None
    /\ create_embeddings = FALSE
    /\ user_input = None
    /\ chat_input_shown = FALSE
    /\ disk = None
    /\ vector_db = None
    /\ managers = 0
    /\ pc = "init"
    /\ trace = <<>>
    /\ run_start = <<>>
    /\ progress = "nothing"

\* ---------------------------------------------------------- user events
\* Every widget interaction triggers a rerun of the script.
Rerun ==
    /\ pc = "idle"
    /\ pc' = "init"
    /\ trace' = <<>>
    /\ chat_input_shown' = FALSE
    /\ run_start' = Messages
    /\ UNCHANGED <<session_state, disk, vector_db, managers, progress>>

\* The selectbox; the uploader and the checkbox exist only on the Chatbot
\* page, and Streamlit drops the value of a widget a run does not render.
SelectPage(p) ==
    /\ Rerun
    /\ p # choice
    /\ choice' = p
    /\ uploaded_file' = None
    /\ create_embeddings' = FALSE
    /\ user_input' = None

UploadFile(d) ==
    /\ Rerun
    /\ choice = "Chatbot"
    /\ d # uploaded_file
    /\ uploaded_file' = d
    /\ user_input' = None
    /\ UNCHANGED <<choice, create_embeddings>>

RemoveFile ==
    /\ Rerun
    /\ choice = "Chatbot"
    /\ uploaded_file # None
    /\ uploaded_file' = None
    /\ user_input' = None
    /\ UNCHANGED <<choice, create_embeddings>>

ToggleCheckbox ==
    /\ Rerun
    /\ choice = "Chatbot"
    /\ create_embeddings' = ~create_embeddings
    /\ user_input' = None
    /\ UNCHANGED <<choice, uploaded_file>>

SubmitChat(q) ==
    /\ Rerun
    /\ chat_input_shown
    /\ Len(Messages) < 2 * MaxSends
    /\ user_input' = q
    /\ UNCHANGED <<choice, uploaded_file, create_embeddings>>

\* ---------------------------------------------------------- script steps
SessionStateInit ==
    /\ pc = "init"
    /\ session_state' = IF NeedsInit(session_state)
                        THEN [k \in {"state"} |-> EmptyState]
                        ELSE session_state
    /\ pc' = "page"
    /\ UNCHANGED <<widgets, chat_input_shown, disk, vector_db, managers, trace,
                   run_start, progress>>

HomePage ==
    /\ pc = "page"
    /\ choice = "Home"
    /\ pc' = "footer"
    /\ UNCHANGED <<session_state, widgets, chat_input_shown, disk, vector_db,
                   managers, trace, run_start, progress>>

ContactPage ==
    /\ pc = "page"
    /\ choice = "Contact"
    /\ pc' = "footer"
    /\ UNCHANGED <<session_state, widgets, chat_input_shown, disk, vector_db,
                   managers, trace, run_start, progress>>

\* ------------------------------------------- Chatbot page, column 1
\* `if uploaded_file:`
FileGiven_always(f) == TRUE
FileGiven(f) == f # None

Column1 ==
    /\ pc = "page"
    /\ choice = "Chatbot"
    /\ IF FileGiven(uploaded_file)
       THEN /\ disk' = uploaded_file
            /\ session_state' = [session_state EXCEPT !["state"].temp_pdf_path = DocPath]
            /\ progress' = IF progress = "nothing" THEN "uploaded" ELSE progress
       ELSE UNCHANGED <<disk, session_state, progress>>
    /\ pc' = "col2"
    /\ UNCHANGED <<widgets, chat_input_shown, vector_db, managers, trace, run_start>>

\* ------------------------------------------- Chatbot page, column 2
\* `if not session_state['state']['temp_pdf_path']`, negated
HasPath_always(st) == TRUE
HasPath(st) == st.temp_pdf_path # None

\* `if not session_state['state']['chatbot_manager']`
NeedsChatbot_always(st) == TRUE
NeedsChatbot(st) == st.chatbot_manager = NoManager

NamedErrors == {"FileNotFoundError", "ValueError", "ConnectionError"}

\* The except clauses of the embedding step: the exceptions they catch ...
Col2Catches_named(e) == e \in NamedErrors
Col2Catches(e) == e \in NamedErrors \/ e \in ExcTypes

\* ... and the text st.error displays for each.
Col2Message(e) ==
    IF e \in NamedErrors THEN e ELSE "An unexpected error occurred: " \o e

\* Where the try block may fail: constructing the EmbeddingsManager, the
\* create_embeddings call, constructing the ChatbotManager, or nowhere.
Col2Outcomes(st) ==
    {[at |-> "none", exc |-> None]}
    \cup [at : {"EmbeddingsManager", "create_embeddings"}, exc : ExcTypes]
    \cup (IF NeedsChatbot(st) THEN [at : {"ChatbotManager"}, exc : ExcTypes] ELSE {})

\* The calls the try block makes up to its end or to the raise.
Col2Calls(st, o) ==
    IF o.at = "EmbeddingsManager"
    THEN << <<"EmbeddingsManager", "raise", o.exc>> >>
    ELSE IF o.at = "create_embeddings"
    THEN << <<"EmbeddingsManager", "ok">>,
            <<"create_embeddings", st.temp_pdf_path, "raise", o.exc>> >>
    ELSE << <<"EmbeddingsManager", "ok">>,
            <<"create_embeddings", st.temp_pdf_path, "ok">>,
            <<"st.success">> >>
         \o (IF ~NeedsChatbot(st) THEN << >>
             ELSE IF o.at = "ChatbotManager"
             THEN << <<"ChatbotManager", "raise", o.exc>> >>
             ELSE << <<"ChatbotManager", "ok">> >>)

\* create_embeddings returned in outcome o.
Embedded(o) == o.at \in {"ChatbotManager", "none"}

Column2 ==
    /\ pc = "col2"
    /\ IF ~create_embeddings
       THEN /\ pc' = "col3"
            /\ UNCHANGED <<session_state, vector_db, managers, trace, progress>>
       ELSE IF ~HasPath(State)
       THEN /\ trace' = Append(trace, <<"st.warning">>)
            /\ pc' = "col3"
            /\ UNCHANGED <<session_state, vector_db, managers, progress>>
       ELSE \E o \in Col2Outcomes(State) :
            /\ vector_db' = IF Embedded(o) THEN disk ELSE vector_db
            /\ progress' = IF Embedded(o) /\ progress = "uploaded" /\ State.temp_pdf_path = DocPath
                           THEN "embedded" ELSE progress
            /\ IF o.at = "none" /\ NeedsChatbot(State)
               THEN /\ managers' = managers + 1
                    /\ session_state' =
                         [session_state EXCEPT !["state"].chatbot_manager = managers + 1]
               ELSE UNCHANGED <<managers, session_state>>
            /\ IF o.at = "none"
               THEN /\ trace' = trace \o Col2Calls(State, o)
                    /\ pc' = "col3"
               ELSE IF Col2Catches(o.exc)
               THEN /\ trace' = trace \o Col2Calls(State, o)
                                  \o << <<"st.error", Col2Message(o.exc)>> >>
                    /\ pc' = "col3"
               ELSE /\ trace' = trace \o Col2Calls(State, o)
                                  \o << <<"uncaught", o.exc>> >>
                    /\ pc' = "idle"
    /\ UNCHANGED <<widgets, chat_input_shown, disk, run_start>>

\* ------------------------------------------- Chatbot page, column 3
\* `if not session_state['state']['chatbot_manager']`, negated
ChatReady_always(st) == TRUE
ChatReady(st) == st.chatbot_manager # NoManager

\* `if user_input := st.chat_input(...)`
ChatInputGiven_never(u) == FALSE
ChatInputGiven(u) == u # None

WithQuestion_front(msgs, q) == <<[role |-> "user", content |-> q]>> \o msgs
WithQuestion(msgs, q) == Append(msgs, [role |-> "user", content |-> q])

WithAnswer(msgs, answer) == Append(msgs, [role |-> "assistant", content |-> answer])

\* What get_response may do: return a value or raise.
Replies == [kind : {"ok"}, val : Answers] \cup [kind : {"raise"}, val : ExcTypes]

\* `except Exception` around get_response
ChatCatches_none(e) == FALSE
ChatCatches(e) == e \in ExcTypes

\* (the text of line 179 without its leading warning sign)
ChatErrorPrefix == "An error occurred while processing your request: "

\* The answer the try/except leaves in `answer`.
AnswerFor(r) == IF r.kind = "ok" THEN r.val ELSE ChatErrorPrefix \o r.val

Column3 ==
    /\ pc = "col3"
    /\ IF ~ChatReady(State)
       THEN /\ trace' = Append(trace, <<"st.info">>)
            /\ pc' = "footer"
            /\ UNCHANGED <<session_state, chat_input_shown>>
       ELSE IF ~ChatInputGiven(user_input)
       THEN /\ chat_input_shown' = TRUE
            /\ pc' = "footer"
            /\ UNCHANGED <<session_state, trace>>
       ELSE \E r \in Replies :
            /\ chat_input_shown' = TRUE
            /\ IF r.kind = "raise" /\ ~ChatCatches(r.val)
               THEN /\ session_state' = [session_state EXCEPT !["state"].messages =
                                            WithQuestion(@, user_input)]
                    /\ trace' = trace \o << <<"get_response", user_input, r.kind, r.val>>,
                                            <<"uncaught", r.val>> >>
                    /\ pc' = "idle"
               ELSE /\ session_state' = [session_state EXCEPT !["state"].messages =
                                            WithAnswer(WithQuestion(@, user_input), AnswerFor(r))]
                    /\ trace' = Append(trace, <<"get_response", user_input, r.kind, r.val>>)
                    /\ pc' = "footer"
    /\ UNCHANGED <<widgets, disk, vector_db, managers, run_start, progress>>

Footer ==
    /\ pc = "footer"
    /\ pc' = "idle"
    /\ UNCHANGED <<session_state, widgets, chat_input_shown, disk, vector_db,
                   managers, trace, run_start, progress>>

Next ==
    \/ \E p \in Pages : SelectPage(p)
    \/ \E d \in Docs : UploadFile(d)
    \/ RemoveFile
    \/ ToggleCheckbox
    \/ \E q \in Questions : SubmitChat(q)
    \/ SessionStateInit
    \/ HomePage
    \/ ContactPage
    \/ Column1
    \/ Column2
    \/ Column3
    \/ Footer

Spec == Init /\ [][Next]_vars

\* ------------------------------------------------------------ properties
\* Positions of the events of trace t that are calls of `name`.
CallsOf(t, name) == {i \in 1..Len(t) : t[i][1] = name}

ManagerCalls(t) ==
    CallsOf(t, "EmbeddingsManager") \cup CallsOf(t, "create_embeddings")
    \cup CallsOf(t, "ChatbotManager") \cup CallsOf(t, "get_response")

RunDone == pc = "idle"

\* C1: a question reaches get_response only after a document was uploaded
\* (temp_pdf_path set) and a later create_embeddings call on that path
\* returned without raising.
C1_ChatOnlyAfterEmbedding ==
    CallsOf(trace, "get_response") # {} =>
        /\ progress = "embedded"
        /\ State.temp_pdf_path = DocPath

C1_Witness ==
    /\ RunDone
    /\ CallsOf(trace, "get_response") # {}
    /\ progress = "embedded"

\* C2: whenever a question is forwarded to get_response, the last
\* create_embeddings call that returned was made on the contents of the most
\* recently uploaded document, the one the stored path refers to.
C2_GroundedInCurrentDocument ==
    CallsOf(trace, "get_response") # {} => vector_db = disk

\* C3: the session state is created empty on the first run, and no later run
\* re-initialises it: the initialisation step of a rerun leaves it as it is.
C3_InitialisedOnce ==
    [][/\ (~HasState /\ HasState') => State' = EmptyState
       /\ HasState => (HasState' /\ (pc = "init" => session_state' = session_state))]_vars

C3_Witness ==
    /\ pc = "page"
    /\ State.messages # <<>>
    /\ State.chatbot_manager # NoManager
    /\ State.temp_pdf_path # None

\* C4: after every completed run the message list has even length, its turns
\* alternate user, assistant from index 0, a message send appended exactly a
\* user turn and an assistant turn, any other run appended nothing, and the
\* list before the run is a prefix of the list after it.
C4_MessagesAppendOnly ==
    RunDone =>
        LET m == Messages IN
        /\ Len(m) % 2 = 0
        /\ \A i \in 1..Len(m) : m[i].role = IF i % 2 = 1 THEN "user" ELSE "assistant"
        /\ Len(run_start) <= Len(m)
        /\ SubSeq(m, 1, Len(run_start)) = run_start
        /\ Len(m) = Len(run_start) + (IF user_input # None THEN 2 ELSE 0)

C4_Witness ==
    /\ RunDone
    /\ user_input # None
    /\ Len(Messages) = 4

\* The widget values of a run that asks for nothing.
QuietRun ==
    \/ choice \in {"Home", "Contact"}
    \/ /\ choice = "Chatbot"
       /\ uploaded_file = None
       /\ ~create_embeddings
       /\ user_input = None

\* C5: a run with the Home or Contact page selected, or with the Chatbot page
\* selected but no uploaded file, the checkbox unchecked and no chat input,
\* changes none of temp_pdf_path, chatbot_manager, messages and calls neither
\* manager.
C5_QuietRunsChangeNothing ==
    [][(pc # "idle" /\ HasState /\ QuietRun) =>
          /\ session_state' = session_state
          /\ ManagerCalls(trace') = {}]_vars

C5_Witness ==
    /\ RunDone
    /\ choice = "Chatbot"
    /\ QuietRun
    /\ State.temp_pdf_path = None
    /\ trace = << <<"st.info">> >>

\* C6: when get_response raises, the run goes on to the footer, the user turn
\* and then an assistant turn holding the error message built from the
\* exception are appended, chatbot_manager and temp_pdf_path are unchanged and
\* the chat input stays on the page.
C6_ChatErrorBecomesAnswer ==
    [][(/\ pc = "col3"
        /\ Len(trace') > Len(trace)
        /\ trace'[Len(trace) + 1][1] = "get_response"
        /\ trace'[Len(trace) + 1][3] = "raise") =>
          LET e == trace'[Len(trace) + 1][4] IN
          /\ pc' = "footer"
          /\ Len(trace') = Len(trace) + 1
          /\ State'.messages = State.messages \o
                << [role |-> "user", content |-> user_input],
                   [role |-> "assistant", content |-> ChatErrorPrefix \o e] >>
          /\ State'.chatbot_manager = State.chatbot_manager
          /\ State'.temp_pdf_path = State.temp_pdf_path
          /\ chat_input_shown']_vars

C6_Witness ==
    /\ RunDone
    /\ chat_input_shown
    /\ Len(Messages) = 2
    /\ Len(trace) > 0
    /\ trace[Len(trace)] = <<"get_response", "q1", "raise", "ValueError">>
    /\ Messages[2].content = ChatErrorPrefix \o "ValueError"

\* Event ev is a raise of the EmbeddingsManager constructor or of create_embeddings.
RaisedInEmbedding(ev) ==
    \/ ev[1] = "EmbeddingsManager" /\ ev[2] = "raise"
    \/ ev[1] = "create_embeddings" /\ ev[3] = "raise"

\* C7: when constructing the EmbeddingsManager or the create_embeddings call
\* raises, the next thing the run does is display the error message, the
\* embedding step leaves the session state as it was, and the run goes on to
\* the chat column.
C7_EmbeddingErrorIsDisplayed ==
    [][pc = "col2" =>
          \A i \in (Len(trace) + 1)..Len(trace') :
              RaisedInEmbedding(trace'[i]) =>
                  /\ i + 1 = Len(trace')
                  /\ trace'[i + 1] = <<"st.error", Col2Message(trace'[i][Len(trace'[i])])>>
                  /\ session_state' = session_state
                  /\ pc' = "col3"]_vars

C7_Witness ==
    /\ pc = "col3"
    /\ State.chatbot_manager = NoManager
    /\ Len(trace) = 3
    /\ trace[2] = <<"create_embeddings", DocPath, "raise", "RuntimeError">>
    /\ trace[3] = <<"st.error", "An unexpected error occurred: RuntimeError">>

\* C8: a run triggered by a submitted chat input calls get_response exactly
\* once, with the submitted string; when the call returns, the last two turns
\* of messages are the user turn holding the submitted string and the
\* assistant turn holding the returned value.
C8_QuestionCalledThrough ==
    (RunDone /\ user_input # None) =>
        /\ Cardinality(CallsOf(trace, "get_response")) = 1
        /\ \A i \in CallsOf(trace, "get_response") :
              /\ trace[i][2] = user_input
              /\ trace[i][3] = "ok" =>
                    LET m == Messages IN
                    /\ Len(m) = Len(run_start) + 2
                    /\ m[Len(m) - 1] = [role |-> "user", content |-> user_input]
                    /\ m[Len(m)] = [role |-> "assistant", content |-> trace[i][4]]

C8_Witness ==
    /\ RunDone
    /\ user_input = "q2"
    /\ trace[Len(trace)] = <<"get_response", "q2", "ok", "a1">>
    /\ Len(Messages) = 4

\* C9: once set, temp_pdf_path is never cleared and chatbot_manager is never
\* cleared nor replaced by another instance; and chatbot_manager set implies
\* temp_pdf_path set.
C9_SetOnce ==
    [][HasState =>
          /\ HasState'
          /\ State.temp_pdf_path # None => State'.temp_pdf_path # None
          /\ State.chatbot_manager # NoManager =>
                State'.chatbot_manager = State.chatbot_manager
          /\ State'.chatbot_manager # NoManager => State'.temp_pdf_path # None]_vars

\* A second document was uploaded and removed again, the checkbox is
\* unchecked, and the manager of the first document is still there.
C9_Witness ==
    /\ RunDone
    /\ State.chatbot_manager # NoManager
    /\ uploaded_file = None
    /\ ~create_embeddings
    /\ disk = "docB"
    /\ vector_db = "docA"

\* The embedding branch (lines 141-158) is the one column 2 takes.
EmbeddingDue ==
    /\ choice = "Chatbot"
    /\ create_embeddings
    /\ State.temp_pdf_path # None

\* C10 as stated: create_embeddings is invoked once in every Chatbot-page run
\* with the checkbox checked and temp_pdf_path set, and never otherwise, and
\* the call precedes the get_response call of the same run.
C10_Original ==
    (RunDone /\ HasState) =>
        /\ Cardinality(CallsOf(trace, "create_embeddings")) = IF EmbeddingDue THEN 1 ELSE 0
        /\ \A i \in CallsOf(trace, "create_embeddings"), j \in CallsOf(trace, "get_response") :
              i < j

\* C10, amended: the EmbeddingsManager is constructed once in exactly those
\* runs; create_embeddings is invoked once when that constructor returned and
\* not at all otherwise; with the checkbox checked and no path only the warning
\* is shown; and the call precedes the get_response call of the same run.
C10_EmbeddingPerRun ==
    (RunDone /\ HasState) =>
        /\ Cardinality(CallsOf(trace, "EmbeddingsManager")) = IF EmbeddingDue THEN 1 ELSE 0
        /\ Cardinality(CallsOf(trace, "create_embeddings")) =
              IF EmbeddingDue /\ \E i \in 1..Len(trace) : trace[i] = <<"EmbeddingsManager", "ok">>
              THEN 1 ELSE 0
        /\ (choice = "Chatbot" /\ create_embeddings /\ ~EmbeddingDue) =>
              /\ trace[1] = <<"st.warning">>
              /\ ManagerCalls(trace) = {}
        /\ \A i \in CallsOf(trace, "create_embeddings") :
              trace[i][2] = State.temp_pdf_path
        /\ \A i \in CallsOf(trace, "create_embeddings"), j \in CallsOf(trace, "get_response") :
              i < j

C10_Witness ==
    /\ RunDone
    /\ user_input # None
    /\ create_embeddings
    /\ CallsOf(trace, "create_embeddings") # {}
    /\ CallsOf(trace, "get_response") # {}
====
